---- MODULE Spec2Model ----
(***************************************************************************)
(* Model of the BASED DAO governance scripts:                              *)
(*   scripts/vote.js            (the vote command)                         *)
(*   scripts/check-proposals.js (the status command)                       *)
(* Each command is an async main(); every `await` on the chain client is   *)
(* one step, between which the chain may produce new blocks.               *)
(***************************************************************************)
EXTENDS Integers, Sequences, FiniteSets, TLC

\* ---------------------------------------------------------------- bounds
MaxBalance == 1      \* token balances range over 0..MaxBalance
MaxCode == 8         \* the uint8 returned by state() ranges over 0..MaxCode
MaxBlock == 2        \* endBlock ranges over 1..MaxBlock, the chain head over 1..MaxBlock+1
MaxCount == 2        \* proposalCount ranges over 0..MaxCount
MaxRuns == 2         \* invocations of the vote command in one behaviour

\* ------------------------------------------------------- program constants
STATES ==
  [c \in 0..7 |-> CASE c = 0 -> "Pending"  [] c = 1 -> "Active"
                    [] c = 2 -> "Canceled" [] c = 3 -> "Defeated"
                    [] c = 4 -> "Succeeded" [] c = 5 -> "Queued"
                    [] c = 6 -> "Expired"  [] c = 7 -> "Executed"]

ZeroAddress == "0x00"
WalletAddress == "0xAb"

\* ------------------------------------------------------------ JS helpers
Undefined == <<"undefined">>

\* String.prototype.toLowerCase on the addresses of the model
ToLowerCase(a) ==
  CASE a = "0xAb" -> "0xab"
    [] a = "0xCd" -> "0xcd"
    [] OTHER -> a

\* JS numbers: NaN is not an integer
NaN == [nan |-> TRUE, n |-> 0]
Num(k) == [nan |-> FALSE, n |-> k]

DigitVal(c) ==
  CASE c = "0" -> 0 [] c = "1" -> 1 [] c = "2" -> 2 [] c = "3" -> 3
    [] c = "4" -> 4 [] c = "5" -> 5 [] c = "6" -> 6 [] c = "7" -> 7
    [] c = "8" -> 8 [] c = "9" -> 9 [] c = "a" -> 10 [] c = "b" -> 11
    [] c = "c" -> 12 [] c = "d" -> 13 [] c = "e" -> 14 [] c = "f" -> 15
    [] OTHER -> 99

RECURSIVE SkipSpace(_)
SkipSpace(s) == IF s # <<>> /\ Head(s) = " " THEN SkipSpace(Tail(s)) ELSE s

RECURSIVE ParseDigits(_, _, _, _)
\* longest prefix of s made of digits of the radix; found = a digit was consumed
ParseDigits(s, radix, acc, found) ==
  IF s # <<>> /\ DigitVal(Head(s)) < radix
    THEN ParseDigits(Tail(s), radix, acc * radix + DigitVal(Head(s)), TRUE)
    ELSE [found |-> found, acc |-> acc]

\* parseInt(string) with no radix argument: leading white space, an optional
\* sign, an optional 0x prefix (radix 16), then the longest run of digits
parseInt(str) ==
  IF str = Undefined THEN NaN
  ELSE
    LET s0 == SkipSpace(str)
        neg == s0 # <<>> /\ Head(s0) = "-"
        s1 == IF s0 # <<>> /\ Head(s0) \in {"-", "+"} THEN Tail(s0) ELSE s0
        hex == Len(s1) >= 2 /\ s1[1] = "0" /\ s1[2] \in {"x", "X"}
        s2 == IF hex THEN SubSeq(s1, 3, Len(s1)) ELSE s1
        r == ParseDigits(s2, IF hex THEN 16 ELSE 10, 0, FALSE)
    IN IF ~r.found THEN NaN ELSE Num(IF neg THEN 0 - r.acc ELSE r.acc)

\* Array.prototype.includes on an array of integers
Includes(arr, x) == ~x.nan /\ x.n \in arr

\* Truthiness of a command-line string
Truthy(s) == s # Undefined /\ s # <<>>

\* ------------------------------------------------------------ inputs
ProposalIdArgs == {<<>>, <<"5">>}
SupportArgs == {<<"0">>, <<"1">>, <<"2">>, <<"3">>, <<"-", "1">>, <<"1", "x">>,
                <<"0", "x", "2">>, <<"x">>, <<>>}
ReasonArgs == {<<>>, <<"y">>}

\* process.argv.slice(2)
Argvs ==
  {<<>>} \cup {<<p>> : p \in ProposalIdArgs}
         \cup {<<p, s>> : p \in ProposalIdArgs, s \in SupportArgs}
         \cup {<<p, s, r>> : p \in ProposalIdArgs, s \in SupportArgs, r \in ReasonArgs}

Arg(a, k) == IF k <= Len(a) THEN a[k] ELSE Undefined

PrivateKeys == {"unset", "malformed", "valid"}
Delegates == {ZeroAddress, WalletAddress, "0xab", "0xCd"}
Codes == 0..MaxCode

\* ------------------------------------------------------------ state
VARIABLES
  cmd,          \* which script runs: "vote" or "status"
  pc,           \* position of main()
  exitCode,     \* process exit code once pc = "exited"
  outcome,      \* what the process reported last
  block,        \* chain head (provider.getBlockNumber)
  \* --- vote.js
  argv, privateKey,
  chain,        \* governor/token storage for the voter and the proposal voted on
  supportNum, balance, delegate, warning, stateNum, stateName, endBlock,
  hasVoted, currentBlock, blocksLeft,
  reads,        \* chain reads that returned in this invocation
  writes,       \* write calls issued in this invocation, in order
  runs, prev,   \* invocation count and the reads of the previous accepting run
  \* --- check-proposals.js
  showAll,         \* process.argv.includes('--all')
  chainProposals,  \* governor storage: proposal i (1-indexed) as [code, endBlock]
  paramsPrinted,   \* the governance-parameters block was printed
  count, i,        \* proposalCount() and the loop index
  proposals,       \* the array built by the loop
  readLog,         \* per loop iteration: did the reads return, and the state code
  displayed,       \* per displayed proposal: id and the blocks-left value, if any
  summary

voteVars == <<argv, privateKey, chain, supportNum, balance, delegate, warning,
              stateNum, stateName, endBlock, hasVoted, currentBlock, blocksLeft,
              reads, writes, runs, prev>>
statusVars == <<showAll, chainProposals, paramsPrinted, count, i, proposals,
                readLog, displayed, summary>>
vars == <<cmd, pc, exitCode, outcome, block, voteVars, statusVars>>

\* state(uint256) view of the governor: a proposal whose voting period is over
\* is no longer reported Active
ChainState(p, b) == IF p.code = 1 /\ b > p.endBlock THEN 3 ELSE p.code

VoteLocalsInit ==
  /\ supportNum = NaN /\ balance = 0 /\ delegate = ZeroAddress
  /\ warning = "none" /\ stateNum = 0 /\ stateName = "" /\ endBlock = 0
  /\ hasVoted = FALSE /\ currentBlock = 0 /\ blocksLeft = 0
  /\ reads = {} /\ writes = <<>>

StatusLocalsInit ==
  /\ paramsPrinted = FALSE /\ count = 0 /\ i = 0 /\ proposals = <<>>
  /\ readLog = <<>> /\ displayed = <<>>
  /\ summary = [active |-> 0, succeeded |-> 0, executed |-> 0]

ChainProposal == [code : Codes, endBlock : 1..MaxBlock]

InitVote ==
  /\ cmd = "vote"
  /\ pc = "ParseArguments"
  /\ argv \in Argvs
  /\ privateKey \in PrivateKeys
  /\ chain \in [balance : 0..MaxBalance, delegate : Delegates, code : Codes,
                endBlock : 1..MaxBlock, hasVoted : BOOLEAN]
  /\ showAll = FALSE /\ chainProposals = <<>>

InitStatus ==
  /\ cmd = "status"
  /\ pc = "GetGovernanceParams"
  /\ showAll \in BOOLEAN
  /\ chainProposals \in UNION {[1..n -> ChainProposal] : n \in 0..MaxCount}
  /\ argv = <<>> /\ privateKey = "unset"
  /\ chain = [balance |-> 0, delegate |-> ZeroAddress, code |-> 0, endBlock |-> 1,
              hasVoted |-> FALSE]

Init ==
  /\ exitCode = 0 /\ outcome = "" /\ block = 1
  /\ VoteLocalsInit
  /\ runs = 1 /\ prev = [accepted |-> FALSE]
  /\ StatusLocalsInit
  /\ (InitVote \/ InitStatus)

\* process.exit(code)
Exit(code, what) == pc' = "exited" /\ exitCode' = code /\ outcome' = what

\* the chain produces a block while the command is awaiting
Tick ==
  /\ pc # "exited"
  /\ block <= MaxBlock
  /\ block' = block + 1
  /\ UNCHANGED <<cmd, pc, exitCode, outcome, voteVars, statusVars>>

\* ------------------------------------------------------------ vote.js
\* mutant: a failed submission is sent again
Catch_Retry ==
  IF pc = "Submitting"
    THEN pc' = "CastVote" /\ UNCHANGED <<exitCode, outcome>>
    ELSE Exit(1, "Error")

\* catch (error) { console.error(...); process.exit(1) }
Catch == Exit(1, "Error")

\* mutant: any parsed number is accepted as a support value
SupportValid_AnyNumber(n) == ~n.nan

\* [0, 1, 2].includes(supportNum)
SupportValid(n) == Includes({0, 1, 2}, n)

\* parse arguments and validate the support value
ParseArguments ==
  /\ cmd = "vote" /\ pc = "ParseArguments"
  /\ LET proposalId == Arg(argv, 1)
         support == Arg(argv, 2)
     IN IF ~Truthy(proposalId) \/ support = Undefined
          THEN Exit(1, "Usage") /\ UNCHANGED supportNum
          ELSE /\ supportNum' = parseInt(support)
               /\ IF ~SupportValid(supportNum')
                    THEN Exit(1, "InvalidSupportValue")
                    ELSE pc' = "GetPrivateKey" /\ UNCHANGED <<exitCode, outcome>>
  /\ UNCHANGED <<statusVars, cmd, block, argv, privateKey, chain, balance, delegate, warning,
                 stateNum, stateName, endBlock, hasVoted, currentBlock, blocksLeft,
                 reads, writes, runs, prev>>

\* read PRIVATE_KEY and build provider, wallet and contracts; the Wallet
\* constructor throws on a malformed key, outside the try block, so main()
\* rejects and the rejection is only logged by main().catch(console.error)
GetPrivateKey ==
  /\ cmd = "vote" /\ pc = "GetPrivateKey"
  /\ CASE privateKey = "unset" -> Exit(1, "NoPrivateKey")
       [] privateKey = "malformed" ->
            pc' = "exited" /\ outcome' = "Uncaught" /\ UNCHANGED exitCode
       [] OTHER -> pc' = "CheckVotingPower" /\ UNCHANGED <<exitCode, outcome>>
  /\ UNCHANGED <<statusVars, cmd, block, voteVars>>

\* mutant: the zero-balance test never fires (bigint compared with a number)
NoVotingPower_Never(b) == FALSE

\* balance === 0n
NoVotingPower(b) == b = 0

\* balanceOf(wallet.address)
CheckVotingPower ==
  /\ cmd = "vote" /\ pc = "CheckVotingPower"
  /\ \/ /\ balance' = chain.balance
        /\ reads' = reads \cup {"balanceOf"}
        /\ IF NoVotingPower(balance')
             THEN Exit(1, "NoVotingPower")
             ELSE pc' = "CheckDelegation" /\ UNCHANGED <<exitCode, outcome>>
     \/ Catch /\ UNCHANGED <<balance, reads>>
  /\ UNCHANGED <<statusVars, cmd, block, argv, privateKey, chain, supportNum, delegate, warning,
                 stateNum, stateName, endBlock, hasVoted, currentBlock, blocksLeft,
                 writes, runs, prev>>

\* the two delegation warnings
DelegationWarning(d) ==
  IF d = ZeroAddress THEN "notDelegated"
  ELSE IF ToLowerCase(d) # ToLowerCase(WalletAddress) THEN "delegatedTo"
  ELSE "none"

\* mutant: a delegation mismatch ends the command
CheckDelegation_HardFail ==
  /\ cmd = "vote" /\ pc = "CheckDelegation"
  /\ \/ /\ delegate' = chain.delegate
        /\ reads' = reads \cup {"delegates"}
        /\ warning' = DelegationWarning(delegate')
        /\ IF warning' # "none"
             THEN Exit(1, "DelegationMismatch")
             ELSE pc' = "CheckProposalState" /\ UNCHANGED <<exitCode, outcome>>
     \/ Catch /\ UNCHANGED <<delegate, reads, warning>>
  /\ UNCHANGED <<statusVars, cmd, block, argv, privateKey, chain, supportNum, balance,
                 stateNum, stateName, endBlock, hasVoted, currentBlock, blocksLeft,
                 writes, runs, prev>>

\* delegates(wallet.address): warnings only
CheckDelegation ==
  /\ cmd = "vote" /\ pc = "CheckDelegation"
  /\ \/ /\ delegate' = chain.delegate
        /\ reads' = reads \cup {"delegates"}
        /\ warning' = DelegationWarning(delegate')
        /\ pc' = "CheckProposalState" /\ UNCHANGED <<exitCode, outcome>>
     \/ Catch /\ UNCHANGED <<delegate, reads, warning>>
  /\ UNCHANGED <<statusVars, cmd, block, argv, privateKey, chain, supportNum, balance,
                 stateNum, stateName, endBlock, hasVoted, currentBlock, blocksLeft,
                 writes, runs, prev>>

\* STATES[stateNum] || 'Unknown'
StateName(n) == IF n \in DOMAIN STATES THEN STATES[n] ELSE "Unknown"

\* mutant: a Pending proposal passes the phase test
NotActive_AcceptsPending(n) == n # 1 /\ n # 0

\* stateNum !== 1
NotActive(n) == n # 1

\* Promise.all([state(proposalId), proposals(proposalId)])
CheckProposalState ==
  /\ cmd = "vote" /\ pc = "CheckProposalState"
  /\ \/ /\ stateNum' = ChainState(chain, block)
        /\ stateName' = StateName(stateNum')
        /\ endBlock' = chain.endBlock
        /\ reads' = reads \cup {"state", "proposals"}
        /\ IF NotActive(stateNum')
             THEN Exit(1, "ProposalNotActive")
             ELSE pc' = "CheckAlreadyVoted" /\ UNCHANGED <<exitCode, outcome>>
     \/ Catch /\ UNCHANGED <<stateNum, stateName, endBlock, reads>>
  /\ UNCHANGED <<statusVars, cmd, block, argv, privateKey, chain, supportNum, balance, delegate,
                 warning, hasVoted, currentBlock, blocksLeft, writes, runs, prev>>

\* mutant: the hasVoted flag is ignored
AlreadyVoted_Ignored(hv) == FALSE

\* if (hasVoted)
AlreadyVoted(hv) == hv

\* hasVoted(proposalId, wallet.address)
CheckAlreadyVoted ==
  /\ cmd = "vote" /\ pc = "CheckAlreadyVoted"
  /\ \/ /\ hasVoted' = chain.hasVoted
        /\ reads' = reads \cup {"hasVoted"}
        /\ IF AlreadyVoted(hasVoted')
             THEN Exit(1, "AlreadyVoted")
             ELSE pc' = "CalculateBlocksLeft" /\ UNCHANGED <<exitCode, outcome>>
     \/ Catch /\ UNCHANGED <<hasVoted, reads>>
  /\ UNCHANGED <<statusVars, cmd, block, argv, privateKey, chain, supportNum, balance, delegate,
                 warning, stateNum, stateName, endBlock, currentBlock, blocksLeft,
                 writes, runs, prev>>

\* Number(proposal.endBlock) - currentBlock
BlocksLeft(end, cur) == end - cur

\* provider.getBlockNumber() and the blocks-left line
CalculateBlocksLeft ==
  /\ cmd = "vote" /\ pc = "CalculateBlocksLeft"
  /\ \/ /\ currentBlock' = block
        /\ blocksLeft' = BlocksLeft(endBlock, currentBlock')
        /\ reads' = reads \cup {"getBlockNumber"}
        /\ pc' = "CastVote" /\ UNCHANGED <<exitCode, outcome>>
     \/ Catch /\ UNCHANGED <<currentBlock, blocksLeft, reads>>
  /\ UNCHANGED <<statusVars, cmd, block, argv, privateKey, chain, supportNum, balance, delegate,
                 warning, stateNum, stateName, endBlock, hasVoted, writes, runs, prev>>

\* the write call: castVoteWithReason when a reason was given, castVote otherwise
CastVote ==
  /\ cmd = "vote" /\ pc = "CastVote"
  /\ LET reason == IF Truthy(Arg(argv, 3)) THEN Arg(argv, 3) ELSE <<>>
     IN writes' = Append(writes,
                    [fn |-> IF Truthy(reason) THEN "castVoteWithReason" ELSE "castVote",
                     proposalId |-> Arg(argv, 1), support |-> supportNum.n,
                     reason |-> reason])
  /\ pc' = "Submitting"
  /\ UNCHANGED <<statusVars, cmd, exitCode, outcome, block, argv, privateKey, chain, supportNum,
                 balance, delegate, warning, stateNum, stateName, endBlock, hasVoted,
                 currentBlock, blocksLeft, reads, runs, prev>>

\* the awaited write call returns the transaction or throws
Submitted ==
  /\ cmd = "vote" /\ pc = "Submitting"
  /\ \/ pc' = "WaitForConfirmation" /\ UNCHANGED <<exitCode, outcome>>
     \/ Catch
  /\ UNCHANGED <<statusVars, cmd, block, voteVars>>

\* the governor records a vote only on an Active proposal not yet voted on
\* ('Proposal not active', 'User already voted' reverts)
GovernorAccepts == ChainState(chain, block) = 1 /\ ~chain.hasVoted

\* tx.wait(): the receipt, or a throw when the transaction reverted
WaitForConfirmation ==
  /\ cmd = "vote" /\ pc = "WaitForConfirmation"
  /\ \/ /\ GovernorAccepts
        /\ chain' = [chain EXCEPT !.hasVoted = TRUE]
        /\ pc' = "exited" /\ outcome' = "VoteCast" /\ UNCHANGED exitCode
     \/ Catch /\ UNCHANGED chain
  /\ UNCHANGED <<statusVars, cmd, block, argv, privateKey, supportNum, balance, delegate, warning,
                 stateNum, stateName, endBlock, hasVoted, currentBlock, blocksLeft,
                 reads, writes, runs, prev>>

\* the caller runs the command again with the same arguments after a run that
\* issued its write
Reinvoke ==
  /\ cmd = "vote" /\ pc = "exited"
  /\ writes # <<>> /\ runs < MaxRuns
  /\ prev' = [accepted |-> TRUE, support |-> supportNum.n, balance |-> balance,
              delegate |-> delegate, stateNum |-> stateNum, hasVoted |-> hasVoted,
              outcome |-> outcome]
  /\ runs' = runs + 1
  /\ pc' = "ParseArguments" /\ exitCode' = 0 /\ outcome' = ""
  /\ supportNum' = NaN /\ balance' = 0 /\ delegate' = ZeroAddress
  /\ warning' = "none" /\ stateNum' = 0 /\ stateName' = "" /\ endBlock' = 0
  /\ hasVoted' = FALSE /\ currentBlock' = 0 /\ blocksLeft' = 0
  /\ reads' = {} /\ writes' = <<>>
  /\ UNCHANGED <<statusVars, cmd, block, argv, privateKey, chain>>

VoteNext ==
  \/ ParseArguments \/ GetPrivateKey \/ CheckVotingPower \/ CheckDelegation
  \/ CheckProposalState \/ CheckAlreadyVoted \/ CalculateBlocksLeft
  \/ CastVote \/ Submitted \/ WaitForConfirmation \/ Reinvoke

\* ------------------------------------------------- check-proposals.js
\* catch (error) { console.error(...); process.exit(1) }
StatusCatch == Exit(1, "Error")

\* mutant: the --all flag is ignored by the filter
SkipProposal_IgnoresAll(all, n) == n # 1

\* if (!showAll && stateNum !== 1) continue
SkipProposal(all, n) == ~all /\ n # 1

\* votingDelay/votingPeriod/proposalThreshold, each .catch(() => 0n); the block
\* is printed when votingDelay > 0n
GetGovernanceParams ==
  /\ cmd = "status" /\ pc = "GetGovernanceParams"
  /\ \E votingDelay \in {0, 86400} : paramsPrinted' = (votingDelay > 0)
  /\ pc' = "GetProposalCount"
  /\ UNCHANGED <<cmd, exitCode, outcome, block, voteVars, showAll, chainProposals,
                 count, i, proposals, readLog, displayed, summary>>

\* proposalCount()
GetProposalCount ==
  /\ cmd = "status" /\ pc = "GetProposalCount"
  /\ \/ /\ count' = Len(chainProposals)
        /\ IF count' = 0
             THEN pc' = "exited" /\ outcome' = "NoProposalsYet" /\ UNCHANGED <<exitCode, i>>
             ELSE pc' = "CheckProposals" /\ i' = 1 /\ UNCHANGED <<exitCode, outcome>>
     \/ StatusCatch /\ UNCHANGED <<count, i>>
  /\ UNCHANGED <<cmd, block, voteVars, showAll, chainProposals, paramsPrinted,
                 proposals, readLog, displayed, summary>>

\* proposals.length === 0 after the loop
AfterLoop(props) ==
  IF Len(props) = 0
    THEN pc' = "exited" /\ outcome' = "NoneFound" /\ UNCHANGED exitCode
    ELSE pc' = "DisplayProposals" /\ UNCHANGED <<exitCode, outcome>>

\* one iteration of the loop over 1..count:
\* Promise.all([proposals(i), state(i)]), filter, push; a throw skips i
CheckProposals ==
  /\ cmd = "status" /\ pc = "CheckProposals"
  /\ i <= count
  /\ \/ LET sn == ChainState(chainProposals[i], block)
        IN /\ readLog' = Append(readLog, [id |-> i, ok |-> TRUE, stateNum |-> sn])
           /\ IF SkipProposal(showAll, sn)
                THEN UNCHANGED proposals
                ELSE proposals' = Append(proposals,
                       [id |-> i, state |-> StateName(sn), stateNum |-> sn,
                        endBlock |-> chainProposals[i].endBlock])
     \/ /\ readLog' = Append(readLog, [id |-> i, ok |-> FALSE, stateNum |-> 0])
        /\ UNCHANGED proposals
  /\ i' = i + 1
  /\ IF i' <= count
       THEN UNCHANGED <<pc, exitCode, outcome>>
       ELSE AfterLoop(proposals')
  /\ UNCHANGED <<cmd, block, voteVars, showAll, chainProposals, paramsPrinted,
                 count, displayed, summary>>

\* proposals.filter(p => p.stateNum === n).length
CountState(props, n) == Cardinality({k \in 1..Len(props) : props[k].stateNum = n})

\* one iteration of the display loop: the header lines, getBlockNumber(), the
\* Time Left line for an Active proposal; after the last one, the summary
DisplayProposals ==
  /\ cmd = "status" /\ pc = "DisplayProposals"
  /\ LET prop == proposals[Len(displayed) + 1]
     IN \/ /\ displayed' = Append(displayed,
                  [id |-> prop.id, state |-> prop.state,
                   timeLeft |-> IF prop.stateNum = 1
                                  THEN <<BlocksLeft(prop.endBlock, block)>>
                                  ELSE <<>>])
           /\ IF Len(displayed') < Len(proposals)
                THEN UNCHANGED <<pc, exitCode, outcome, summary>>
                ELSE /\ summary' = [active |-> CountState(proposals, 1),
                                    succeeded |-> CountState(proposals, 4),
                                    executed |-> CountState(proposals, 7)]
                     /\ pc' = "exited" /\ outcome' = "Listed" /\ UNCHANGED exitCode
        \/ /\ displayed' = Append(displayed,
                  [id |-> prop.id, state |-> prop.state, timeLeft |-> <<>>])
           /\ StatusCatch /\ UNCHANGED summary
  /\ UNCHANGED <<cmd, block, voteVars, showAll, chainProposals, paramsPrinted,
                 count, i, proposals, readLog>>

StatusNext ==
  \/ GetGovernanceParams \/ GetProposalCount \/ CheckProposals \/ DisplayProposals

Next == Tick \/ VoteNext \/ StatusNext

Spec == Init /\ [][Next]_vars

\* ================================================================ claims
RuleErrors == {"InvalidSupportValue", "NoVotingPower", "ProposalNotActive", "AlreadyVoted"}
OtherFailures == {"Usage", "NoPrivateKey", "Uncaught", "Error"}
VoteReads == {"balanceOf", "delegates", "state", "proposals", "hasVoted"}

\* C1: a write call is issued only after the support code was found in
\* {0,1,2}, the balance read was non-zero, the state read was 1 and the
\* hasVoted read was false; an invocation failing one of them issues no write.
C1_WriteOnlyAfterChecks ==
  cmd = "vote" =>
    /\ writes # <<>> =>
         /\ ~supportNum.nan /\ supportNum.n \in {0, 1, 2}
         /\ {"balanceOf", "state", "hasVoted"} \subseteq reads
         /\ balance # 0 /\ stateNum = 1 /\ hasVoted = FALSE
         /\ writes[1].fn \in {"castVote", "castVoteWithReason"}
    /\ (pc = "exited" /\ outcome \in RuleErrors) => writes = <<>>

C1_Witness ==
  /\ cmd = "vote" /\ Len(writes) = 1 /\ writes[1].fn = "castVoteWithReason"
  /\ writes[1].support = 2

\* the rule violated first, in the order support, balance, phase, hasVoted
FirstViolated(sup, bal, phase, voted) ==
  IF sup.nan \/ sup.n \notin {0, 1, 2} THEN "InvalidSupportValue"
  ELSE IF bal = 0 THEN "NoVotingPower"
  ELSE IF phase # 1 THEN "ProposalNotActive"
  ELSE IF voted THEN "AlreadyVoted"
  ELSE "none"

\* the snapshot the invocation validates: what it read, else what the chain holds
SeenBalance == IF "balanceOf" \in reads THEN balance ELSE chain.balance
SeenPhase == IF "state" \in reads THEN stateNum ELSE ChainState(chain, block)
SeenVoted == IF "hasVoted" \in reads THEN hasVoted ELSE chain.hasVoted

\* C2: the rules are checked in the order support, balance, phase, hasVoted
\* and the error reported is that of the lowest-numbered violated rule.
C2_FirstFailingRuleWins ==
  (cmd = "vote" /\ pc = "exited" /\ outcome \notin OtherFailures) =>
    LET first == FirstViolated(supportNum, SeenBalance, SeenPhase, SeenVoted)
    IN /\ outcome \in RuleErrors => outcome = first
       /\ first # "none" => outcome = first

C2_Witness ==
  /\ cmd = "vote" /\ pc = "exited" /\ outcome = "NoVotingPower"
  /\ chain.balance = 0 /\ ChainState(chain, block) # 1 /\ chain.hasVoted

\* C3 (as stated): a voter whose balance is 0 is rejected with NoVotingPower
\* for every phase code and every support value supplied.
C3_Original ==
  (cmd = "vote" /\ pc = "exited" /\ outcome \notin OtherFailures /\ chain.balance = 0)
    => outcome = "NoVotingPower"

\* C3 (amended): an invocation whose balance read returns 0, which happens
\* only for a support value in {0,1,2}, ends with NoVotingPower, with exit
\* code 1 and without a write, whatever the phase code.
C3_ZeroBalanceRejected ==
  (cmd = "vote" /\ "balanceOf" \in reads /\ balance = 0) =>
    /\ pc = "exited" /\ outcome = "NoVotingPower" /\ exitCode = 1
    /\ writes = <<>> /\ reads = {"balanceOf"}
    /\ ~supportNum.nan /\ supportNum.n \in {0, 1, 2}

C3_Witness ==
  /\ cmd = "vote" /\ "balanceOf" \in reads /\ balance = 0
  /\ outcome = "NoVotingPower" /\ chain.code = 1 /\ supportNum.n = 2

\* C4: at most one write call is issued per invocation; a failed submission
\* or confirmation is reported and the process ends without a second write.
C4_SingleWrite ==
  cmd = "vote" =>
    /\ Len(writes) <= 1
    /\ pc \in {"Submitting", "WaitForConfirmation"} => Len(writes) = 1
    /\ (outcome = "Error" /\ writes # <<>>) => (pc = "exited" /\ exitCode = 1)

C4_Witness ==
  cmd = "vote" /\ pc = "exited" /\ outcome = "Error" /\ Len(writes) = 1

\* C5: a phase code outside 0..7 makes the vote command and the status
\* command fail with UnknownPhase; the proposal is not labelled or listed.
C5_UnknownPhaseFails ==
  /\ (cmd = "vote" /\ "state" \in reads /\ stateNum \notin 0..7) =>
        (pc = "exited" /\ outcome = "UnknownPhase")
  /\ cmd = "status" =>
        /\ \A k \in 1..Len(readLog) :
             (readLog[k].ok /\ readLog[k].stateNum \notin 0..7) =>
               (pc = "exited" /\ outcome = "UnknownPhase")
        /\ \A k \in 1..Len(proposals) : proposals[k].stateNum \in 0..7

Max0(x) == IF x < 0 THEN 0 ELSE x

\* C6: the blocks-remaining value reported is max(0, endBlock - currentBlock),
\* never negative, and is produced only for an Active proposal.
C6_BlocksRemainingClamped ==
  /\ (cmd = "vote" /\ "getBlockNumber" \in reads) =>
        (stateNum = 1 /\ blocksLeft = Max0(endBlock - currentBlock))
  /\ cmd = "status" =>
        \A k \in 1..Len(displayed) :
          displayed[k].timeLeft # <<>> =>
            (displayed[k].state = "Active" /\ displayed[k].timeLeft[1] >= 0)

\* C7: whatever the delegate read returns, an invocation that passes the four
\* checks submits the vote; the delegate only selects the warning.
C7_DelegationAdvisory ==
  cmd = "vote" =>
    /\ "delegates" \in reads =>
         warning = (IF delegate = ZeroAddress THEN "notDelegated"
                    ELSE IF delegate \notin {"0xAb", "0xab"} THEN "delegatedTo"
                    ELSE "none")
    /\ (pc = "exited" /\ "delegates" \in reads /\ "state" \notin reads) =>
         outcome = "Error"
    /\ (VoteReads \cup {"getBlockNumber"} \subseteq reads /\ pc # "CastVote") =>
         Len(writes) = 1

C7_Witness ==
  /\ cmd = "vote" /\ Len(writes) = 1 /\ warning = "delegatedTo"
  /\ delegate = "0xCd"

\* C8: exit code 1 on every validation, read or submission failure; exit
\* code 0 only when the command completed successfully.
C8_ExitCodes ==
  pc = "exited" =>
    /\ exitCode \in {0, 1}
    /\ exitCode = 0 =>
         IF cmd = "vote" THEN outcome = "VoteCast" /\ Len(writes) = 1
         ELSE outcome \in {"Listed", "NoneFound", "NoProposalsYet"}
    /\ outcome \in RuleErrors \cup OtherFailures => exitCode = 1

\* the run re-validates the decision of the previous, accepting run
Replay == cmd = "vote" /\ runs > 1 /\ prev.accepted /\ VoteReads \subseteq reads

\* C9 (as stated): the parameters of an accepted vote, validated again
\* against an unchanged snapshot, are rejected.
C9_Original ==
  (/\ Replay
   /\ balance = prev.balance /\ delegate = prev.delegate
   /\ stateNum = prev.stateNum /\ hasVoted = prev.hasVoted)
    => (pc = "exited" /\ outcome \in RuleErrors)

\* C9 (amended): validated again against a snapshot that differs only in
\* hasVoted = true, the parameters are rejected with AlreadyVoted; against
\* the unchanged snapshot they are accepted again.
C9_RoundTrip ==
  (/\ Replay
   /\ balance = prev.balance /\ delegate = prev.delegate
   /\ stateNum = prev.stateNum)
    => /\ supportNum.n = prev.support
       /\ hasVoted => (pc = "exited" /\ outcome = "AlreadyVoted" /\ writes = <<>>)
       /\ ~hasVoted => outcome \notin RuleErrors

C9_Witness ==
  /\ Replay /\ prev.outcome = "VoteCast" /\ hasVoted
  /\ balance = prev.balance /\ delegate = prev.delegate /\ stateNum = prev.stateNum
  /\ outcome = "AlreadyVoted"

\* ids the loop has to list after reading 1..n
ExpectedIds(n) ==
  {id \in 1..n : readLog[id].ok /\ (showAll \/ readLog[id].stateNum = 1)}

\* C10: the proposals listed are, in ascending id order, exactly those of
\* 1..proposalCount whose reads succeeded and, without --all, whose reported
\* state is 1; a failed read skips that proposal only.
C10_Listing ==
  (cmd = "status" /\ pc \in {"CheckProposals", "DisplayProposals", "exited"}
     /\ outcome \notin {"Error", "NoProposalsYet"} /\ count > 0) =>
    /\ Len(readLog) = i - 1
    /\ \A k \in 1..Len(readLog) : readLog[k].id = k
    /\ pc # "CheckProposals" => Len(readLog) = count
    /\ {proposals[k].id : k \in 1..Len(proposals)} = ExpectedIds(Len(readLog))
    /\ \A k \in 1..Len(proposals) :
         /\ proposals[k].stateNum = readLog[proposals[k].id].stateNum
         /\ k > 1 => proposals[k - 1].id < proposals[k].id
    /\ outcome = "Listed" =>
         /\ Len(displayed) = Len(proposals)
         /\ \A k \in 1..Len(displayed) : displayed[k].id = proposals[k].id

C10_Witness ==
  /\ cmd = "status" /\ outcome = "Listed" /\ showAll /\ count = 2
  /\ ~readLog[1].ok /\ Len(proposals) = 1 /\ proposals[1].id = 2
  /\ proposals[1].stateNum # 1
====
